---- MODULE Spec2Model ----
(***************************************************************************)
(* gbm_rs (src/lib.rs): Device, Surface and BufferObject, three ownership  *)
(* wrappers around the opaque handles of libgbm.  The wrappers are the     *)
(* program; libgbm is its environment, modelled as a recording native      *)
(* layer whose allocation results and query results are nondeterministic.  *)
(***************************************************************************)
EXTENDS Integers, Sequences, FiniteSets, Bags, TLC

VARIABLES
    devices,    \* bag of live Device values            (struct Device { ptr })
    surfaces,   \* bag of live Surface values           (struct Surface { ptr })
    bos,        \* bag of live BufferObject values      (struct BufferObject { ptr, manual })
    ndev,       \* native layer: gbm_device objects by handle
    nsurf,      \* native layer: gbm_surface objects by handle
    nbo,        \* native layer: gbm_bo objects by handle
    errno,      \* the platform last-error code
    calls,      \* history: the native release and destroy calls issued so far, in order
    last,       \* the operation that has just returned to the caller: the native calls it
                \* issued and its result; Idle once the caller has taken the result
    opened,     \* history: <<handle, fd>> of every successful Device::from_fd
    scenario    \* history: how far the operations so far follow the lifecycle scenario

vars == <<devices, surfaces, bos, ndev, nsurf, nbo, errno, calls, last, opened, scenario>>

-----------------------------------------------------------------------------
(* Bounds and input samples *)

MaxDev == 1         \* native device handles the native layer can hand out
MaxSurf == 1        \* native surface handles
MaxBo == 2          \* native buffer handles
MaxDevices == 2     \* live Device values at once (BufferObject::device makes more)
MaxCalls == 3       \* length of the recorded release/destroy history

NULL == 0           \* the null pointer, is_null()

USE_SCANOUT == 1
USE_CURSOR == 2
USE_RENDERING == 4
USE_WRITE == 8
XRGB8888 == 875713112   \* fourcc_code!('X', 'R', '2', '4')

DevPtrs == 1..MaxDev
SurfPtrs == 1..MaxSurf
BoPtrs == 1..MaxBo

Fds == {7, 8}                       \* file descriptors passed to Device::from_fd
ErrCodes == {12, 22}                \* last-error codes the native layer sets on failure
CInts == {-1, 0, 1}                 \* c_int results of the native layer
U32Sample == {1080, 1920}           \* u32 results of the geometry getters
Geoms == {<<1920, 1080, XRGB8888, USE_SCANOUT + USE_RENDERING>>}   \* width, height, format, flags
Formats == {0, XRGB8888}
Usages == {USE_WRITE}
Counts == {4}                       \* byte counts passed to write
ExportFds == {-1, 20}               \* results of gbm_bo_get_fd

(* A 64-bit value is four 16-bit limbs, least significant first. *)
Limb == 256 * 256
LimbSample == {0, 1, 32767, 32768, 65535}
HandleValues == {<<a, b, c, d>> : a \in LimbSample, b \in LimbSample,
                                  c \in LimbSample, d \in LimbSample}
HandleSample == {<<1, 0, 0, 0>>, <<65535, 65535, 0, 32768>>}

-----------------------------------------------------------------------------
(* Values *)

(* A Device value.  via is history, not a field of the struct: the        *)
(* operation that constructed the value, "from_fd" or "device".            *)
Device(p, via) == [ptr |-> p, via |-> via]
Surface(p) == [ptr |-> p]
BufferObject(p, m) == [ptr |-> p, manual |-> m]

None == [some |-> FALSE]
Some(v) == [some |-> TRUE, val |-> v]

(* One native call: the function, its arguments, what it returned. *)
Call(fn, a1, a2, ret) == [fn |-> fn, a1 |-> a1, a2 |-> a2, ret |-> ret]

(* A native call that reports failure through the last-error code: err is  *)
(* the code when the call returned.                                        *)
CallE(fn, a1, a2, ret, e) == [fn |-> fn, a1 |-> a1, a2 |-> a2, ret |-> ret, err |-> e]

Min(S) == CHOOSE x \in S : \A y \in S : x <= y

-----------------------------------------------------------------------------
(* The native layer (extern block).  A handle is handed out once; which    *)
(* address a fresh object gets is immaterial, so it is the least unused.   *)
(* A creation may always fail.  A read through a destroyed handle is       *)
(* undefined: it may return any value of its type.                         *)

DevLive(p) == p \in DevPtrs /\ ndev[p].st = "live"
SurfLive(p) == p \in SurfPtrs /\ nsurf[p].st = "live"
BoLive(p) == p \in BoPtrs /\ nbo[p].st \in {"live", "locked"}

Fresh(tab) == LET unused == {p \in DOMAIN tab : tab[p].st = "unused"}
              IN  IF unused = {} THEN {} ELSE {Min(unused)}

(* gbm_create_device(fd): null and a last-error code, or a new device on fd. *)
gbm_create_device(fd) ==
    {[ret |-> NULL, ndev |-> ndev, errno |-> e] : e \in ErrCodes}
    \cup {[ret |-> p, ndev |-> [ndev EXCEPT ![p] = [st |-> "live", fd |-> fd]],
           errno |-> errno] : p \in Fresh(ndev)}

(* gbm_device_get_fd(dev): the descriptor the device was created on. *)
gbm_device_get_fd(dev) ==
    IF DevLive(dev) THEN {ndev[dev].fd} ELSE Fds \cup {-1}

(* gbm_device_destroy(dev), applied to the device table t *)
gbm_device_destroy(t, dev) ==
    IF dev \in DevPtrs THEN [t EXCEPT ![dev].st = "freed"] ELSE t

(* gbm_surface_create(dev, ...): null, or a new surface of dev. *)
gbm_surface_create(dev) ==
    {[ret |-> NULL, nsurf |-> nsurf]}
    \cup {[ret |-> p, nsurf |-> [nsurf EXCEPT ![p] = [st |-> "live", dev |-> dev]]]
          : p \in Fresh(nsurf)}

(* gbm_surface_destroy(surf), applied to the native state n: the surface *)
(* goes, and the buffers of its pool with it.                              *)
gbm_surface_destroy(n, surf) ==
    [n EXCEPT
       !.nsurf = IF surf \in SurfPtrs THEN [n.nsurf EXCEPT ![surf].st = "freed"] ELSE n.nsurf,
       !.nbo = [p \in BoPtrs |->
                   IF n.nbo[p].surf = surf /\ surf # NULL /\ n.nbo[p].st \in {"locked", "free"}
                   THEN [n.nbo[p] EXCEPT !.st = "freed"] ELSE n.nbo[p]]]

(* gbm_bo_create(dev, ...): null and a last-error code, or a new buffer of dev. *)
gbm_bo_create(dev) ==
    {[ret |-> NULL, nbo |-> nbo, errno |-> e] : e \in ErrCodes}
    \cup {[ret |-> p, nbo |-> [nbo EXCEPT ![p] = [st |-> "live", dev |-> dev, surf |-> NULL]],
           errno |-> errno] : p \in Fresh(nbo)}

(* gbm_bo_destroy(bo), applied to the buffer table t *)
gbm_bo_destroy(t, bo) ==
    IF bo \in BoPtrs THEN [t EXCEPT ![bo].st = "freed"] ELSE t

(* gbm_bo_get_device(bo): the device the buffer was created from. *)
gbm_bo_get_device(bo) ==
    IF BoLive(bo) THEN {nbo[bo].dev} ELSE DevPtrs \cup {NULL}

(* gbm_surface_lock_front_buffer(surf): null, or a buffer of the surface   *)
(* that is not locked: a new one, or one released earlier.                 *)
gbm_surface_lock_front_buffer(surf) ==
    {[ret |-> NULL, nbo |-> nbo]}
    \cup {[ret |-> p,
           nbo |-> [nbo EXCEPT ![p] = [st |-> "locked", dev |-> nsurf[surf].dev, surf |-> surf]]]
          : p \in Fresh(nbo) \cup {q \in BoPtrs : nbo[q].st = "free" /\ nbo[q].surf = surf}}

(* gbm_surface_release_buffer(surf, bo), applied to the buffer table t: a *)
(* buffer locked from surf goes back to the surface's pool.                *)
gbm_surface_release_buffer(t, surf, bo) ==
    IF bo \in BoPtrs /\ t[bo].st = "locked" /\ t[bo].surf = surf
    THEN [t EXCEPT ![bo].st = "free"] ELSE t

(* gbm_bo_write(bo, buf, count): 0, or a failure code and a last-error code. *)
gbm_bo_write ==
    {[ret |-> 0, errno |-> errno]}
    \cup {[ret |-> r, errno |-> e] : r \in CInts \ {0}, e \in ErrCodes}

(* gbm_bo_get_fd(bo): a new descriptor, or -1 and a last-error code. *)
gbm_bo_get_fd ==
    {[ret |-> f, errno |-> errno] : f \in ExportFds \ {-1}}
    \cup {[ret |-> -1, errno |-> e] : e \in ErrCodes}

-----------------------------------------------------------------------------
(* What the program issues is a sequence of native calls; the native layer *)
(* carries out the release and destroy calls among them in order.          *)

DisposalFns == {"gbm_device_destroy", "gbm_surface_destroy", "gbm_bo_destroy",
                "gbm_surface_release_buffer"}

Disposals(issued) == SelectSeq(issued, LAMBDA c : c.fn \in DisposalFns)

Exec(n, c) ==
    CASE c.fn = "gbm_device_destroy" -> [n EXCEPT !.ndev = gbm_device_destroy(n.ndev, c.a1)]
      [] c.fn = "gbm_surface_destroy" -> gbm_surface_destroy(n, c.a1)
      [] c.fn = "gbm_bo_destroy" -> [n EXCEPT !.nbo = gbm_bo_destroy(n.nbo, c.a1)]
      [] c.fn = "gbm_surface_release_buffer" ->
             [n EXCEPT !.nbo = gbm_surface_release_buffer(n.nbo, c.a1, c.a2)]
      [] OTHER -> n

RECURSIVE ExecAll(_, _)
ExecAll(n, issued) ==
    IF issued = <<>> THEN n ELSE ExecAll(Exec(n, Head(issued)), Tail(issued))

Native == [ndev |-> ndev, nsurf |-> nsurf, nbo |-> nbo]

-----------------------------------------------------------------------------
(* The wrappers' own logic *)

(* OptionOf without the null check *)
OptionOf_Unchecked(p, w) == Some(w)

(* if p.is_null() { return None; } return Some(w);                         *)
OptionOf(p, w) == IF p = NULL THEN None ELSE Some(w)

(* is_format_supported taking only a positive native result for true *)
is_format_supported_result_Positive(r) == r > 0

(* gbm_device_is_format_supported(..) != 0 *)
is_format_supported_result(r) == r # 0

(* gbm_surface_has_free_buffers(..) != 0 *)
has_free_buffers_result(r) == r # 0

(* write taking every non-negative native result for success *)
write_result_NonNegative(r) == r >= 0

(* gbm_bo_write(..) == 0 *)
write_result(r) == r = 0

(* lock_front_buffer marking its buffer as one to destroy *)
LockedBufferObject_Manual(p) == BufferObject(p, TRUE)

(* Some(BufferObject { ptr: bo, manual: false }) *)
LockedBufferObject(p) == BufferObject(p, FALSE)

(* Some(BufferObject { ptr: bo, manual: true }) *)
CreatedBufferObject(p) == BufferObject(p, TRUE)

(* impl Drop for Device *)
DropDeviceCalls(d) == <<Call("gbm_device_destroy", d.ptr, NULL, NULL)>>

(* Drop for Surface that also tears down the surface's device *)
DropSurfaceCalls_AndDevice(s) ==
    <<Call("gbm_surface_destroy", s.ptr, NULL, NULL),
      Call("gbm_device_destroy", nsurf[s.ptr].dev, NULL, NULL)>>

(* impl Drop for Surface *)
DropSurfaceCalls(s) == <<Call("gbm_surface_destroy", s.ptr, NULL, NULL)>>

(* Drop for BufferObject that hands a borrowed buffer back to its surface *)
DropBufferObjectCalls_Release(b) ==
    IF b.manual THEN <<Call("gbm_bo_destroy", b.ptr, NULL, NULL)>>
    ELSE <<Call("gbm_surface_release_buffer", nbo[b.ptr].surf, b.ptr, NULL)>>

(* Drop for BufferObject without the test of manual *)
DropBufferObjectCalls_Always(b) == <<Call("gbm_bo_destroy", b.ptr, NULL, NULL)>>

(* impl Drop for BufferObject: if self.manual { gbm_bo_destroy(self.ptr) } *)
DropBufferObjectCalls(b) ==
    IF b.manual THEN <<Call("gbm_bo_destroy", b.ptr, NULL, NULL)>> ELSE <<>>

(* release_buffer that destroys the buffer instead of handing it back *)
ReleaseBufferCalls_Destroy(s, b) == <<Call("gbm_bo_destroy", b.ptr, NULL, NULL)>>

(* Surface::release_buffer(&self, bo): the native release, then bo, taken  *)
(* by value, is dropped at the end of the function.                        *)
ReleaseBufferCalls(s, b) ==
    <<Call("gbm_surface_release_buffer", s.ptr, b.ptr, NULL)>> \o DropBufferObjectCalls(b)

-----------------------------------------------------------------------------
(* History *)

Queries == {"Device::is_format_supported", "Device::fd", "Device::c_struct",
            "Surface::has_free_buffers", "Surface::c_struct",
            "BufferObject::width", "BufferObject::height", "BufferObject::stride",
            "BufferObject::format", "BufferObject::handle_u32", "BufferObject::handle_u64",
            "BufferObject::handle_i32", "BufferObject::handle_i64", "BufferObject::handle_ptr",
            "BufferObject::c_struct"}

(* The lifecycle scenario: open a device on fd 7, create a 1920x1080       *)
(* XRGB8888 surface for scanout and rendering, lock its front buffer,      *)
(* release the buffer, dispose the surface, dispose the device.  k is the  *)
(* number of its steps done so far, -1 once the run has left it; queries   *)
(* in between do not count.                                                *)
ScenarioGeom == <<1920, 1080, XRGB8888, USE_SCANOUT + USE_RENDERING>>

Advance(k, op, arg, r) ==
    IF op \in Queries THEN k
    ELSE IF k = 0 /\ op = "Device::from_fd" /\ arg = 7 /\ r.some THEN 1
    ELSE IF k = 1 /\ op = "Surface::new" /\ arg = ScenarioGeom /\ r.some THEN 2
    ELSE IF k = 2 /\ op = "Surface::lock_front_buffer" /\ r.some THEN 3
    ELSE IF k = 3 /\ op = "Surface::release_buffer" THEN 4
    ELSE IF k = 4 /\ op = "drop Surface" THEN 5
    ELSE IF k = 5 /\ op = "drop Device" THEN 6
    ELSE -1

(* The caller is sequential: it invokes one operation, takes what the      *)
(* operation returned, and goes on.  Every operation records itself: obj   *)
(* is the value it is applied to (or the Device a constructor borrows),    *)
(* arg its other argument, issued the native calls it made in order, r     *)
(* what it returned.                                                       *)
Idle == [op |-> "idle", obj |-> NULL, arg |-> NULL, calls |-> <<>>, ret |-> NULL]

Step(op, obj, arg, issued, r) ==
    /\ last = Idle
    /\ Len(calls) + Len(Disposals(issued)) <= MaxCalls
    /\ last' = [op |-> op, obj |-> obj, arg |-> arg, calls |-> issued, ret |-> r]
    /\ calls' = calls \o Disposals(issued)
    /\ scenario' = Advance(scenario, op, arg, r)

Init ==
    /\ devices = EmptyBag
    /\ surfaces = EmptyBag
    /\ bos = EmptyBag
    /\ ndev = [p \in DevPtrs |-> [st |-> "unused", fd |-> -1]]
    /\ nsurf = [p \in SurfPtrs |-> [st |-> "unused", dev |-> NULL]]
    /\ nbo = [p \in BoPtrs |-> [st |-> "unused", dev |-> NULL, surf |-> NULL]]
    /\ errno = 0
    /\ calls = <<>>
    /\ last = Idle
    /\ opened = {}
    /\ scenario = 0

-----------------------------------------------------------------------------
(* Device *)

(* Device::from_fd(fd) *)
from_fd(fd) ==
    \E o \in gbm_create_device(fd) :
        LET r == OptionOf(o.ret, Device(o.ret, "from_fd")) IN
        /\ ndev' = o.ndev
        /\ errno' = o.errno
        /\ devices' = IF r.some THEN devices (+) SetToBag({r.val}) ELSE devices
        /\ opened' = IF r.some THEN opened \cup {<<r.val.ptr, fd>>} ELSE opened
        /\ Step("Device::from_fd", NULL, fd, <<CallE("gbm_create_device", fd, NULL, o.ret, o.errno)>>, r)
        /\ UNCHANGED <<surfaces, bos, nsurf, nbo>>

(* Device::is_format_supported(&self, format, usage) *)
is_format_supported(d, format, usage) ==
    \E r \in CInts :
        /\ Step("Device::is_format_supported", d, <<format, usage>>,
                <<Call("gbm_device_is_format_supported", d.ptr, NULL, r)>>,
                is_format_supported_result(r))
        /\ UNCHANGED <<devices, surfaces, bos, ndev, nsurf, nbo, errno, opened>>

(* Device::fd(&self) *)
Device_fd(d) ==
    \E r \in gbm_device_get_fd(d.ptr) :
        /\ Step("Device::fd", d, NULL, <<Call("gbm_device_get_fd", d.ptr, NULL, r)>>, r)
        /\ UNCHANGED <<devices, surfaces, bos, ndev, nsurf, nbo, errno, opened>>

(* Device::c_struct(&self) *)
Device_c_struct(d) ==
    /\ Step("Device::c_struct", d, NULL, <<>>, d.ptr)
    /\ UNCHANGED <<devices, surfaces, bos, ndev, nsurf, nbo, errno, opened>>

(* impl Drop for Device *)
DropDevice(d) ==
    LET issued == DropDeviceCalls(d)
        n == ExecAll(Native, issued) IN
    /\ devices' = devices (-) SetToBag({d})
    /\ ndev' = n.ndev /\ nsurf' = n.nsurf /\ nbo' = n.nbo
    /\ Step("drop Device", d, NULL, issued, NULL)
    /\ UNCHANGED <<surfaces, bos, errno, opened>>

-----------------------------------------------------------------------------
(* Surface *)

(* Surface::new(dev, width, height, format, flags) *)
Surface_new(d, g) ==
    \E o \in gbm_surface_create(d.ptr) :
        LET r == OptionOf(o.ret, Surface(o.ret)) IN
        /\ nsurf' = o.nsurf
        /\ surfaces' = IF r.some THEN surfaces (+) SetToBag({r.val}) ELSE surfaces
        /\ Step("Surface::new", d, g, <<Call("gbm_surface_create", d.ptr, NULL, o.ret)>>, r)
        /\ UNCHANGED <<devices, bos, ndev, nbo, errno, opened>>

(* Surface::has_free_buffers(&self) *)
has_free_buffers(s) ==
    \E r \in CInts :
        /\ Step("Surface::has_free_buffers", s, NULL,
                <<Call("gbm_surface_has_free_buffers", s.ptr, NULL, r)>>,
                has_free_buffers_result(r))
        /\ UNCHANGED <<devices, surfaces, bos, ndev, nsurf, nbo, errno, opened>>

(* Surface::lock_front_buffer(&self) *)
lock_front_buffer(s) ==
    \E o \in gbm_surface_lock_front_buffer(s.ptr) :
        LET r == OptionOf(o.ret, LockedBufferObject(o.ret)) IN
        /\ nbo' = o.nbo
        /\ bos' = IF r.some THEN bos (+) SetToBag({r.val}) ELSE bos
        /\ Step("Surface::lock_front_buffer", s, NULL,
                <<Call("gbm_surface_lock_front_buffer", s.ptr, NULL, o.ret)>>, r)
        /\ UNCHANGED <<devices, surfaces, ndev, nsurf, errno, opened>>

(* Surface::release_buffer(&self, bo) *)
release_buffer(s, b) ==
    LET issued == ReleaseBufferCalls(s, b)
        n == ExecAll(Native, issued) IN
    /\ bos' = bos (-) SetToBag({b})
    /\ ndev' = n.ndev /\ nsurf' = n.nsurf /\ nbo' = n.nbo
    /\ Step("Surface::release_buffer", s, b, issued, NULL)
    /\ UNCHANGED <<devices, surfaces, errno, opened>>

(* Surface::c_struct(&self) *)
Surface_c_struct(s) ==
    /\ Step("Surface::c_struct", s, NULL, <<>>, s.ptr)
    /\ UNCHANGED <<devices, surfaces, bos, ndev, nsurf, nbo, errno, opened>>

(* impl Drop for Surface *)
DropSurface(s) ==
    LET issued == DropSurfaceCalls(s)
        n == ExecAll(Native, issued) IN
    /\ surfaces' = surfaces (-) SetToBag({s})
    /\ ndev' = n.ndev /\ nsurf' = n.nsurf /\ nbo' = n.nbo
    /\ Step("drop Surface", s, NULL, issued, NULL)
    /\ UNCHANGED <<devices, bos, errno, opened>>

-----------------------------------------------------------------------------
(* BufferObject *)

(* BufferObject::new(dev, width, height, format, flags) *)
BufferObject_new(d, g) ==
    \E o \in gbm_bo_create(d.ptr) :
        LET r == OptionOf(o.ret, CreatedBufferObject(o.ret)) IN
        /\ nbo' = o.nbo
        /\ errno' = o.errno
        /\ bos' = IF r.some THEN bos (+) SetToBag({r.val}) ELSE bos
        /\ Step("BufferObject::new", d, g, <<CallE("gbm_bo_create", d.ptr, NULL, o.ret, o.errno)>>, r)
        /\ UNCHANGED <<devices, surfaces, ndev, nsurf, opened>>

(* BufferObject::width, height, stride, format: the native value, as is. *)
Getter(b, op, fn) ==
    \E r \in U32Sample :
        /\ Step(op, b, NULL, <<Call(fn, b.ptr, NULL, r)>>, r)
        /\ UNCHANGED <<devices, surfaces, bos, ndev, nsurf, nbo, errno, opened>>

width(b) == Getter(b, "BufferObject::width", "gbm_bo_get_width")
height(b) == Getter(b, "BufferObject::height", "gbm_bo_get_height")
stride(b) == Getter(b, "BufferObject::stride", "gbm_bo_get_stride")
format(b) == Getter(b, "BufferObject::format", "gbm_bo_get_format")

(* BufferObject::device(&self): Device { ptr: gbm_bo_get_device(self.ptr) } *)
device(b) ==
    \E p \in gbm_bo_get_device(b.ptr) :
        /\ BagCardinality(devices) < MaxDevices
        /\ devices' = devices (+) SetToBag({Device(p, "device")})
        /\ Step("BufferObject::device", b, NULL,
                <<Call("gbm_bo_get_device", b.ptr, NULL, p)>>, Device(p, "device"))
        /\ UNCHANGED <<surfaces, bos, ndev, nsurf, nbo, errno, opened>>

(* The casts of the u64 that gbm_bo_get_handle returns.  `as u32` keeps   *)
(* the low 32 bits; `as i32` keeps them and reads bit 31 as the sign; `as  *)
(* i64` reads bit 63 as the sign (an i64 is its sign and its magnitude,    *)
(* the magnitude again four limbs); `as *const c_void` keeps all 64 bits   *)
(* of a 64-bit address.                                                    *)
Complement(h) == [i \in 1..4 |-> Limb - 1 - h[i]]

RECURSIVE Increment(_, _)
Increment(h, i) ==
    IF i > Len(h) THEN h
    ELSE IF h[i] = Limb - 1 THEN Increment([h EXCEPT ![i] = 0], i + 1)
    ELSE [h EXCEPT ![i] = h[i] + 1]

(* `as u32` keeping the wrong half *)
As_u32_High(h) == <<h[3], h[4]>>

As_u32(h) == <<h[1], h[2]>>

As_i32(h) == IF h[2] >= Limb \div 2 THEN (h[2] - Limb) * Limb + h[1] ELSE h[2] * Limb + h[1]

As_i64(h) == IF h[4] >= Limb \div 2
             THEN [neg |-> TRUE, mag |-> Increment(Complement(h), 1)]
             ELSE [neg |-> FALSE, mag |-> h]

As_ptr(h) == h

(* BufferObject::handle_u32 ... handle_ptr: gbm_bo_get_handle(self.ptr), cast *)
Handle(b, op, h, r) ==
    /\ Step(op, b, NULL, <<Call("gbm_bo_get_handle", b.ptr, NULL, h)>>, r)
    /\ UNCHANGED <<devices, surfaces, bos, ndev, nsurf, nbo, errno, opened>>

handle_u32(b, H) == \E h \in H : Handle(b, "BufferObject::handle_u32", h, As_u32(h))
handle_u64(b, H) == \E h \in H : Handle(b, "BufferObject::handle_u64", h, h)
handle_i32(b, H) == \E h \in H : Handle(b, "BufferObject::handle_i32", h, As_i32(h))
handle_i64(b, H) == \E h \in H : Handle(b, "BufferObject::handle_i64", h, As_i64(h))
handle_ptr(b, H) == \E h \in H : Handle(b, "BufferObject::handle_ptr", h, As_ptr(h))

(* BufferObject::fd(&self) *)
BufferObject_fd(b) ==
    \E o \in gbm_bo_get_fd :
        /\ errno' = o.errno
        /\ Step("BufferObject::fd", b, NULL, <<CallE("gbm_bo_get_fd", b.ptr, NULL, o.ret, o.errno)>>, o.ret)
        /\ UNCHANGED <<devices, surfaces, bos, ndev, nsurf, nbo, opened>>

(* BufferObject::write(&self, buf, count) *)
write(b, count) ==
    \E o \in gbm_bo_write :
        /\ errno' = o.errno
        /\ Step("BufferObject::write", b, count,
                <<CallE("gbm_bo_write", b.ptr, count, o.ret, o.errno)>>, write_result(o.ret))
        /\ UNCHANGED <<devices, surfaces, bos, ndev, nsurf, nbo, opened>>

(* BufferObject::c_struct(&self) *)
BufferObject_c_struct(b) ==
    /\ Step("BufferObject::c_struct", b, NULL, <<>>, b.ptr)
    /\ UNCHANGED <<devices, surfaces, bos, ndev, nsurf, nbo, errno, opened>>

(* impl Drop for BufferObject *)
DropBufferObject(b) ==
    LET issued == DropBufferObjectCalls(b)
        n == ExecAll(Native, issued) IN
    /\ bos' = bos (-) SetToBag({b})
    /\ ndev' = n.ndev /\ nsurf' = n.nsurf /\ nbo' = n.nbo
    /\ Step("drop BufferObject", b, NULL, issued, NULL)
    /\ UNCHANGED <<devices, surfaces, errno, opened>>

-----------------------------------------------------------------------------
(* Any operation may be applied to any live value at any time; a value may *)
(* be dropped at any time.                                                 *)

Devs == BagToSet(devices)
Surfs == BagToSet(surfaces)
Bos == BagToSet(bos)

(* The caller has taken the result of the operation that returned. *)
Resume ==
    /\ last # Idle
    /\ last' = Idle
    /\ UNCHANGED <<devices, surfaces, bos, ndev, nsurf, nbo, errno, calls, opened, scenario>>

Next ==
    \/ Resume
    \/ \E fd \in Fds : from_fd(fd)
    \/ \E d \in Devs, f \in Formats, u \in Usages : is_format_supported(d, f, u)
    \/ \E d \in Devs : Device_fd(d)
    \/ \E d \in Devs : Device_c_struct(d)
    \/ \E d \in Devs : DropDevice(d)
    \/ \E d \in Devs, g \in Geoms : Surface_new(d, g)
    \/ \E s \in Surfs : has_free_buffers(s)
    \/ \E s \in Surfs : lock_front_buffer(s)
    \/ \E s \in Surfs, b \in Bos : release_buffer(s, b)
    \/ \E s \in Surfs : Surface_c_struct(s)
    \/ \E s \in Surfs : DropSurface(s)
    \/ \E d \in Devs, g \in Geoms : BufferObject_new(d, g)
    \/ \E b \in Bos : width(b)
    \/ \E b \in Bos : height(b)
    \/ \E b \in Bos : stride(b)
    \/ \E b \in Bos : format(b)
    \/ \E b \in Bos : device(b)
    \/ \E b \in Bos : handle_u32(b, HandleSample)
    \/ \E b \in Bos : handle_u64(b, HandleSample)
    \/ \E b \in Bos : handle_i32(b, HandleSample)
    \/ \E b \in Bos : handle_i64(b, HandleSample)
    \/ \E b \in Bos : handle_ptr(b, HandleSample)
    \/ \E b \in Bos : BufferObject_fd(b)
    \/ \E b \in Bos, n \in Counts : write(b, n)
    \/ \E b \in Bos : BufferObject_c_struct(b)
    \/ \E b \in Bos : DropBufferObject(b)

Spec == Init /\ [][Next]_vars

(* The handle accessors over many native handle values: a Device on fd 7   *)
(* and one BufferObject created from it, the accessors applied to it.      *)
HandleInit ==
    /\ devices = SetToBag({Device(1, "from_fd")})
    /\ surfaces = EmptyBag
    /\ bos = SetToBag({CreatedBufferObject(1)})
    /\ ndev = [p \in DevPtrs |-> IF p = 1 THEN [st |-> "live", fd |-> 7]
                                 ELSE [st |-> "unused", fd |-> -1]]
    /\ nsurf = [p \in SurfPtrs |-> [st |-> "unused", dev |-> NULL]]
    /\ nbo = [p \in BoPtrs |-> IF p = 1 THEN [st |-> "live", dev |-> 1, surf |-> NULL]
                               ELSE [st |-> "unused", dev |-> NULL, surf |-> NULL]]
    /\ errno = 0
    /\ calls = <<>>
    /\ last = Idle
    /\ opened = {<<1, 7>>}
    /\ scenario = -1

HandleNext ==
    \/ Resume
    \/ \E b \in Bos : handle_u32(b, HandleValues)
    \/ \E b \in Bos : handle_u64(b, HandleValues)
    \/ \E b \in Bos : handle_i32(b, HandleValues)
    \/ \E b \in Bos : handle_i64(b, HandleValues)
    \/ \E b \in Bos : handle_ptr(b, HandleValues)

HandleSpec == HandleInit /\ [][HandleNext]_vars

-----------------------------------------------------------------------------
(* Properties *)

(* The calls to fn among issued *)
CallsTo(issued, fn) == SelectSeq(issued, LAMBDA c : c.fn = fn)

(* The native layer's own record of where a buffer came from: gbm_bo_create *)
(* (owned) or a surface's gbm_surface_lock_front_buffer (borrowed).         *)
NativeOwned(p) == nbo[p].surf = NULL

(* C1: disposing a BufferObject issues exactly one gbm_bo_destroy, on its  *)
(* own handle, when the buffer came from BufferObject::new, and no         *)
(* gbm_bo_destroy at all when it came from Surface::lock_front_buffer.     *)
C1_DropDestroysOwnedOnly ==
    last.op = "drop BufferObject" =>
        CallsTo(last.calls, "gbm_bo_destroy") =
            IF NativeOwned(last.obj.ptr)
            THEN <<Call("gbm_bo_destroy", last.obj.ptr, NULL, NULL)>>
            ELSE <<>>

(* A borrowed BufferObject has just been dropped, after an owned one was. *)
C1_Witness ==
    /\ last.op = "drop BufferObject"
    /\ ~NativeOwned(last.obj.ptr)
    /\ CallsTo(calls, "gbm_bo_destroy") # <<>>

(* C2: release_buffer on a borrowed BufferObject issues exactly one native *)
(* call, gbm_surface_release_buffer on the surface's and the buffer's      *)
(* handles, no gbm_bo_destroy, and the BufferObject value is gone after    *)
(* it, so that no operation can be applied to it.                          *)
C2_ReleaseConsumesWithoutDestroy ==
    (last.op = "Surface::release_buffer" /\ ~last.arg.manual) =>
        /\ last.calls = <<Call("gbm_surface_release_buffer", last.obj.ptr, last.arg.ptr, NULL)>>
        /\ calls # <<>> /\ calls[Len(calls)] = last.calls[1]
        /\ ~BagIn(last.arg, bos)

(* A borrowed BufferObject has just been released to its own surface. *)
C2_Witness ==
    /\ last.op = "Surface::release_buffer"
    /\ ~last.arg.manual
    /\ nbo[last.arg.ptr].st = "free"
    /\ nbo[last.arg.ptr].surf = last.obj.ptr

(* C3, as claimed: at most one live Device wraps a native device handle,   *)
(* and gbm_device_destroy is issued at most once per handle.               *)
C3_OneDevicePerHandle ==
    \A p \in DevPtrs :
        /\ CopiesIn(Device(p, "from_fd"), devices) + CopiesIn(Device(p, "device"), devices) <= 1
        /\ Len(SelectSeq(calls, LAMBDA c : c.fn = "gbm_device_destroy" /\ c.a1 = p)) <= 1

(* C3, the consequence alone: gbm_device_destroy at most once per handle. *)
C3_DestroyedAtMostOnce ==
    \A p \in DevPtrs :
        Len(SelectSeq(calls, LAMBDA c : c.fn = "gbm_device_destroy" /\ c.a1 = p)) <= 1


Creators == {"Device::from_fd", "Surface::new", "BufferObject::new",
             "Surface::lock_front_buffer"}

(* The live values of the kind that op constructs *)
Made(op, ds, ss, bs) ==
    IF op = "Device::from_fd" THEN ds ELSE IF op = "Surface::new" THEN ss ELSE bs

(* C4: a creating operation issues one native call; when that returns null *)
(* the operation returns None, constructs no value and issues no release   *)
(* or destroy; when it returns a handle the operation returns Some of one  *)
(* new value holding exactly that handle.  No Surface or BufferObject ever *)
(* holds null, so none is ever released or destroyed for a failed creation.*)
C4_Created ==
    LET c == last'.calls[1]
        w == last'.ret.val IN
    /\ Len(last'.calls) = 1
    /\ calls' = calls
    /\ IF c.ret = NULL
       THEN /\ ~last'.ret.some
            /\ devices' = devices /\ surfaces' = surfaces /\ bos' = bos
       ELSE /\ last'.ret.some
            /\ w.ptr = c.ret
            /\ Made(last'.op, devices', surfaces', bos')
                   = Made(last'.op, devices, surfaces, bos) (+) SetToBag({w})

C4_NullYieldsNone ==
    [][ /\ last'.op \in Creators => C4_Created
        /\ \A s \in BagToSet(surfaces') : s.ptr # NULL
        /\ \A b \in BagToSet(bos') : b.ptr # NULL ]_vars

(* A lock of the front buffer has just failed while a buffer locked earlier is live. *)
C4_Witness ==
    /\ last.op = "Surface::lock_front_buffer"
    /\ last.calls[1].ret = NULL
    /\ ~last.ret.some
    /\ bos # EmptyBag

(* C5, as claimed: Device::fd on a live Device that from_fd(fd) returned   *)
(* gives fd, whatever was done in between.                                 *)
C5_FdRoundTrip ==
    (last.op = "Device::fd" /\ last.obj.via = "from_fd") =>
        \A o \in opened : o[1] = last.obj.ptr => last.ret = o[2]

(* C5 as long as the native device is alive: the descriptor comes back as  *)
(* it was passed.                                                          *)
C5_FdRoundTripWhileNativeLive ==
    (last.op = "Device::fd" /\ DevLive(last.obj.ptr)) =>
        \A o \in opened : o[1] = last.obj.ptr => last.ret = o[2]

(* C6: a BufferObject is manual exactly when gbm_bo_create made its buffer; *)
(* lock_front_buffer returns manual = false, BufferObject::new manual =     *)
(* true; the live BufferObjects change only by a constructor adding the     *)
(* value it returns or by a release or drop removing one value, so no flag  *)
(* flips; and releasing one borrowed buffer leaves every other one locked.  *)
C6_Step ==
    /\ \A b \in BagToSet(bos') : b.manual <=> nbo'[b.ptr].surf = NULL
    /\ (last'.op = "Surface::lock_front_buffer" /\ last'.ret.some) => ~last'.ret.val.manual
    /\ (last'.op = "BufferObject::new" /\ last'.ret.some) => last'.ret.val.manual
    /\ \/ bos' = bos
       \/ /\ last'.op \in {"Surface::lock_front_buffer", "BufferObject::new"}
          /\ last'.ret.some
          /\ bos' = bos (+) SetToBag({last'.ret.val})
       \/ /\ last'.op = "Surface::release_buffer"
          /\ bos' = bos (-) SetToBag({last'.arg})
       \/ /\ last'.op = "drop BufferObject"
          /\ bos' = bos (-) SetToBag({last'.obj})
    /\ last'.op = "Surface::release_buffer" =>
           \A b \in BagToSet(bos') : ~b.manual => nbo'[b.ptr].st = nbo[b.ptr].st

C6_ProvenanceFixed == [][C6_Step]_vars

(* Of two borrowed BufferObjects locked from one surface and live at once, *)
(* one has just been released and the other is live and still locked.      *)
C6_Witness ==
    /\ last.op = "Surface::release_buffer"
    /\ ~last.arg.manual
    /\ \E b \in Bos :
           /\ ~b.manual
           /\ b.ptr # last.arg.ptr
           /\ nbo[b.ptr].st = "locked"
           /\ nbo[b.ptr].surf = last.obj.ptr
           /\ nbo[last.arg.ptr].surf = last.obj.ptr

(* C7: write issues gbm_bo_write and nothing else, returns true exactly    *)
(* when that returned 0, and leaves the last-error code as the native call *)
(* left it.                                                                *)
C7_WriteResult ==
    last.op = "BufferObject::write" =>
        /\ Len(last.calls) = 1
        /\ last.calls[1].fn = "gbm_bo_write"
        /\ last.calls[1].a1 = last.obj.ptr
        /\ last.ret = (last.calls[1].ret = 0)
        /\ errno = last.calls[1].err

(* A write has just failed with a positive native result, the last-error code set. *)
C7_Witness ==
    /\ last.op = "BufferObject::write"
    /\ last.calls[1].ret = 1
    /\ ~last.ret
    /\ errno = 22

(* C8: disposing a Surface issues gbm_surface_destroy on its own handle    *)
(* and nothing else, once per surface; and after the lifecycle scenario    *)
(* (open device, create surface, lock front buffer, release buffer,        *)
(* dispose surface, dispose device) the native layer has recorded the      *)
(* release of the buffer, then the destroy of the surface, then the        *)
(* destroy of the device, and no destroy of the buffer.                    *)
C8_SurfaceDisposal ==
    /\ last.op = "drop Surface" =>
           last.calls = <<Call("gbm_surface_destroy", last.obj.ptr, NULL, NULL)>>
    /\ \A p \in SurfPtrs :
           Len(SelectSeq(calls, LAMBDA c : c.fn = "gbm_surface_destroy" /\ c.a1 = p))
               = IF nsurf[p].st = "freed" THEN 1 ELSE 0
    /\ scenario = 6 =>
           calls = <<Call("gbm_surface_release_buffer", 1, 1, NULL),
                     Call("gbm_surface_destroy", 1, NULL, NULL),
                     Call("gbm_device_destroy", 1, NULL, NULL)>>

(* The lifecycle scenario has just ended with the disposal of the device. *)
C8_Witness ==
    /\ scenario = 6
    /\ last.op = "drop Device"
    /\ Len(calls) = 3


HandleOps == {"BufferObject::handle_u32", "BufferObject::handle_u64",
              "BufferObject::handle_i32", "BufferObject::handle_i64"}

ZeroExtend(u) == <<u[1], u[2], 0, 0>>

(* x + y over four limbs from limb i on with carry c: the limbs of the sum, then the carry out *)
RECURSIVE AddCarry(_, _, _, _)
AddCarry(x, y, i, c) ==
    IF i > 4 THEN <<c>>
    ELSE LET t == x[i] + y[i] + c IN <<t % Limb>> \o AddCarry(x, y, i + 1, t \div Limb)

(* C9: with h the 64-bit value gbm_bo_get_handle returned, handle_u64 is h; *)
(* handle_u32 is h mod 2^32 (the low two limbs); handle_i32 is the number   *)
(* in -2^31 .. 2^31 - 1 congruent to h mod 2^32; handle_i64 is the number   *)
(* in -2^63 .. 2^63 - 1 congruent to h mod 2^64; and handle_u32 equals      *)
(* handle_u64 as a number exactly when h < 2^32.                            *)
C9_HandleCasts ==
    last.op \in HandleOps =>
        LET h == last.calls[1].ret
            r == last.ret IN
        /\ last.op = "BufferObject::handle_u64" => r = h
        /\ last.op = "BufferObject::handle_u32" =>
               /\ Len(r) = 2 /\ r[1] = h[1] /\ r[2] = h[2]
               /\ (ZeroExtend(r) = h) <=> (h[3] = 0 /\ h[4] = 0)
        /\ last.op = "BufferObject::handle_i32" =>
               /\ (r \div Limb) \in -(Limb \div 2) .. (Limb \div 2 - 1)
               /\ r % Limb = h[1]
               /\ (r \div Limb) % Limb = h[2]
        /\ last.op = "BufferObject::handle_i64" =>
               IF r.neg
               THEN /\ AddCarry(r.mag, h, 1, 0) = <<0, 0, 0, 0, 1>>
                    /\ \/ r.mag[4] < Limb \div 2
                       \/ r.mag = <<0, 0, 0, Limb \div 2>>
               ELSE r.mag = h /\ h[4] < Limb \div 2

(* handle_u32 has just truncated a handle of 2^32 or more whose bit 31 is set. *)
C9_Witness ==
    /\ last.op = "BufferObject::handle_u32"
    /\ last.calls[1].ret[3] # 0
    /\ last.ret[2] >= Limb \div 2
    /\ ZeroExtend(last.ret) # last.calls[1].ret

C10Ops == {"Device::is_format_supported", "Device::fd", "Surface::has_free_buffers",
           "BufferObject::width", "BufferObject::height", "BufferObject::stride",
           "BufferObject::format", "BufferObject::handle_u32", "BufferObject::handle_u64",
           "BufferObject::handle_i32", "BufferObject::handle_i64", "BufferObject::handle_ptr"}

QueryFns == {"gbm_device_is_format_supported", "gbm_device_get_fd",
             "gbm_surface_has_free_buffers", "gbm_bo_get_width", "gbm_bo_get_height",
             "gbm_bo_get_stride", "gbm_bo_get_format", "gbm_bo_get_handle"}

(* C10: a query or accessor leaves the live Devices, Surfaces and          *)
(* BufferObjects (and so every manual flag) and the native objects as they *)
(* were, and issues one native call, a query, never a create, lock,        *)
(* release or destroy; is_format_supported returns a boolean, true exactly *)
(* when the native result is not 0.                                        *)
C10_Step ==
    last'.op \in C10Ops =>
        /\ devices' = devices /\ surfaces' = surfaces /\ bos' = bos
        /\ ndev' = ndev /\ nsurf' = nsurf /\ nbo' = nbo
        /\ calls' = calls
        /\ Len(last'.calls) = 1
        /\ last'.calls[1].fn \in QueryFns
        /\ last'.calls[1].a1 = last'.obj.ptr
        /\ last'.op = "Device::is_format_supported" =>
               /\ last'.ret \in BOOLEAN
               /\ last'.ret <=> last'.calls[1].ret # 0

C10_QueriesChangeNothing == [][C10_Step]_vars

(* is_format_supported has just returned true for a negative native result, *)
(* with a Surface and a BufferObject live.                                  *)
C10_Witness ==
    /\ last.op = "Device::is_format_supported"
    /\ last.calls[1].ret = -1
    /\ last.ret = TRUE
    /\ surfaces # EmptyBag
    /\ bos # EmptyBag

(* C11, as claimed: every gbm_surface_release_buffer(S, B) the program     *)
(* issues has B borrowed: a buffer that Surface::lock_front_buffer on S    *)
(* returned, never one that BufferObject::new created, and no              *)
(* gbm_bo_destroy of B follows it in the same release_buffer.              *)
C11_ReleaseOnlyBorrowedOfSameSurface ==
    \A i \in 1..Len(last.calls) :
        LET c == last.calls[i] IN
        c.fn = "gbm_surface_release_buffer" =>
            /\ c.a2 \in BoPtrs
            /\ ~NativeOwned(c.a2)
            /\ nbo[c.a2].surf = c.a1
            /\ CallsTo(last.calls, "gbm_bo_destroy") = <<>>

(* The handles a native call is issued with, each with its kind. *)
HandleArgs(c) ==
    IF c.fn \in {"gbm_device_is_format_supported", "gbm_device_get_fd", "gbm_device_destroy",
                 "gbm_surface_create", "gbm_bo_create"}
    THEN {<<"device", c.a1>>}
    ELSE IF c.fn = "gbm_surface_release_buffer" THEN {<<"surface", c.a1>>, <<"bo", c.a2>>}
    ELSE IF c.fn \in {"gbm_surface_has_free_buffers", "gbm_surface_lock_front_buffer",
                      "gbm_surface_destroy"}
    THEN {<<"surface", c.a1>>}
    ELSE IF c.fn = "gbm_create_device" THEN {}
    ELSE {<<"bo", c.a1>>}

(* The native object k, in the sense of the claim, is gone once call c is  *)
(* issued: c destroys it, or it is a buffer locked from the surface that c *)
(* destroys, or a surface or buffer of the device that c destroys.         *)
Ends(c, k) ==
    LET kind == k[1]
        h == k[2] IN
    CASE kind = "device" -> c.fn = "gbm_device_destroy" /\ c.a1 = h
      [] kind = "surface" ->
            \/ c.fn = "gbm_surface_destroy" /\ c.a1 = h
            \/ c.fn = "gbm_device_destroy" /\ h \in SurfPtrs /\ nsurf[h].dev = c.a1
      [] kind = "bo" ->
            \/ c.fn = "gbm_bo_destroy" /\ c.a1 = h
            \/ c.fn = "gbm_surface_destroy" /\ h \in BoPtrs /\ nbo[h].surf = c.a1
            \/ c.fn = "gbm_device_destroy" /\ h \in BoPtrs /\ nbo[h].dev = c.a1

(* The release and destroy calls issued before the operation that has just *)
(* returned.                                                               *)
CallsBefore == SubSeq(calls, 1, Len(calls) - Len(Disposals(last.calls)))

(* C12, as claimed: no native call is issued with a handle whose native    *)
(* object a destroy call issued earlier has ended: not with a destroyed    *)
(* handle, not with a buffer locked from a destroyed surface, not with a   *)
(* surface or buffer of a destroyed device.                                *)
C12_NoCallAfterDestroy ==
    \A i \in 1..Len(last.calls) :
        \A k \in HandleArgs(last.calls[i]) :
            /\ \A j \in 1..Len(CallsBefore) : ~Ends(CallsBefore[j], k)
            /\ \A j \in 1..(i - 1) : ~Ends(last.calls[j], k)

(* C12, the first statement alone: no native call is issued with a handle  *)
(* after the destroy call on that very handle.                             *)
C12_NoCallAfterOwnDestroy ==
    \A i \in 1..Len(last.calls) :
        \A k \in HandleArgs(last.calls[i]) :
            LET own(c) == c.fn = "gbm_" \o k[1] \o "_destroy" /\ c.a1 = k[2] IN
            /\ \A j \in 1..Len(CallsBefore) : ~own(CallsBefore[j])
            /\ \A j \in 1..(i - 1) : ~own(last.calls[j])

(* C13: dropping a borrowed BufferObject issues no native call and leaves  *)
(* the native objects as they were; a locked buffer stops being locked     *)
(* only in a release_buffer given a BufferObject of it, which hands it     *)
(* back to its surface, or in the drop of the Surface it was locked from,  *)
(* which destroys it.                                                      *)
C13_Step ==
    /\ (last'.op = "drop BufferObject" /\ ~last'.obj.manual) =>
           /\ last'.calls = <<>>
           /\ calls' = calls
           /\ ndev' = ndev /\ nsurf' = nsurf /\ nbo' = nbo
    /\ \A p \in BoPtrs :
           (nbo[p].st = "locked" /\ nbo'[p].st # "locked") =>
               \/ /\ last'.op = "Surface::release_buffer"
                  /\ last'.arg.ptr = p
                  /\ last'.obj.ptr = nbo[p].surf
                  /\ nbo'[p].st = "free"
               \/ /\ last'.op = "drop Surface"
                  /\ last'.obj.ptr = nbo[p].surf
                  /\ nbo'[p].st = "freed"

C13_BorrowedDropLeavesLocked == [][C13_Step]_vars

(* A borrowed BufferObject has just been dropped without a release: no     *)
(* release or destroy call has been issued at all, its buffer is still     *)
(* locked, and its Surface is live.                                        *)
C13_Witness ==
    /\ last.op = "drop BufferObject"
    /\ ~last.obj.manual
    /\ calls = <<>>
    /\ nbo[last.obj.ptr].st = "locked"
    /\ BagIn(Surface(nbo[last.obj.ptr].surf), surfaces)

====
